---- MODULE Spec2Model ----
(***************************************************************************)
(* Option repricing loop of JLLEW/assignment1: main.py (main_loop,         *)
(* process_strike), pricing.py (price_option, the synthetic future, the    *)
(* Black-76 formula), api_requests.py (the venue's data) and utils.py      *)
(* (save, expiry conversions).                                             *)
(*                                                                         *)
(* Floats are modelled as exact rationals [kind |-> "num", num, den]; the  *)
(* Python value None is the record None.  A Black-76 price is kept as the  *)
(* term of its arguments where the formula is finite, and is the number or *)
(* the nan that numpy gives elsewhere.  Calendar dates are day numbers.    *)
(* An expiry code is a date together with its spelling: "9MAY25" is how    *)
(* the venue lists it, "09may25" is another spelling that strptime parses  *)
(* to the same day.                                                        *)
(***************************************************************************)
EXTENDS Integers, Sequences, FiniteSets, TLC

\* ------------------------------------------------------------------ bounds
MaxDate == 4          \* expiry dates are the days 1..MaxDate
MaxFutures == 3       \* longest futures listing
MaxStrike == 3        \* strikes are 1..MaxStrike
MaxT1 == 3            \* longest total run time, seconds
MaxT2 == 2            \* longest interval, seconds
MaxDuration == 2      \* longest wall-clock duration of one cycle, seconds
MaxForward == 2       \* largest forward price handed to the formula on its own
MaxRetries == 5       \* largest retries handed to fetch_data (its default)

\* ------------------------------------------------------------------ values
None == [kind |-> "None"]

RECURSIVE GCD(_, _)
GCD(a, b) == IF b = 0 THEN a ELSE GCD(b, a % b)

Abs(n) == IF n < 0 THEN -n ELSE n

\* the rational n/d in lowest terms, d # 0
Rat(n, d) ==
    LET g == GCD(Abs(n), Abs(d))
        s == IF d < 0 THEN -1 ELSE 1
    IN  [kind |-> "num", num |-> (s * n) \div g, den |-> (s * d) \div g]

Num(n) == Rat(n, 1)

IsNum(v) == v.kind = "num"

\* a float of any form (a rational or a term), i.e. not None
IsFloat(v) == v.kind # "None"

\* ------------------------------------------------------------------ names
Dates == 1 .. MaxDate
Spellings == {"listed", "other"}
ExpiryCodes == [date : Dates, spelling : Spellings]
PERPETUAL == [date |-> 0, spelling |-> "PERPETUAL"]
\* a code that the pattern of utils.py line 97 does not match and that no
\* instrument name contains ("2025-06-27")
Malformed == [date |-> 0, spelling |-> "malformed"]

\* main.py line 152
SupportedCurrencies == {"BTC", "ETH", "SOL_USDC", "XRP_USDC", "BNB_USDC", "PAXG_USDC"}
\* pricing.py lines 69, 74 and api_requests.py line 150: currency.lower() in [...]
DatedFuturesCurrencies == {"BTC", "ETH", "PAXG_USDC"}
\* main.py line 48
AssetSettledCurrencies == {"BTC", "ETH"}

\* f"{currency}-{expiry_code}"
InstrumentName(currency, code) == [currency |-> currency, expiry |-> code]

\* utils.convert_future_name_to_date: strptime of the part after the last '-'
convert_future_name_to_date(future_str) == future_str.expiry.date

\* utils.convert_expiration_to_years: None for a code that does not match
\* the pattern and for an expiry in the past (the ValueError is caught
\* inside), else the time left in years (here: days / 365)
convert_expiration_to_years(expiration, today) ==
    LET delta == expiration.date - today
    IN  IF expiration.spelling = "malformed" THEN None
        ELSE IF delta < 0 THEN None ELSE Rat(delta, 365)

\* ------------------------------------------------------------------ venue
\* The ticker is the venue's answer to get_underlying_price at one moment:
\* for each date (0: the perpetual) a mark price, or None after the retries
\* are exhausted.  The curve of prices is convex, so that the choice of the
\* pair of futures shows in the synthetic price.
MarkPrice(d) == 100 + 10 * d * d

TickerWithout(absent) ==
    [d \in 0 .. MaxDate |-> IF d \in absent THEN None ELSE Num(MarkPrice(d))]

Tickers ==
    {TickerWithout(A) : A \in {B \in SUBSET (0 .. MaxDate) : Cardinality(B) <= 1}}
    \cup {TickerWithout(0 .. MaxDate)}

\* api_requests.get_underlying_price: the instrument it asks for
underlying_instrument(currency, expiry_code) ==
    IF currency \notin DatedFuturesCurrencies
    THEN InstrumentName(currency, PERPETUAL)
    ELSE InstrumentName(currency, expiry_code)

\* lines 154-157 answering 0 where the venue gave no price
get_underlying_price_or_zero(ticker, currency, expiry_code) ==
    LET price == ticker[underlying_instrument(currency, expiry_code).expiry.date]
    IN  IF price = None THEN Num(0) ELSE price

\* api_requests.get_underlying_price: the mark price of that instrument, or None
get_underlying_price(ticker, currency, expiry_code) ==
    ticker[underlying_instrument(currency, expiry_code).expiry.date]

\* ------------------------------------------------------------------ pricing
\* float('nan')
NaN == [kind |-> "nan"]

\* pricing.price_black_76 line 172, for numbers F and T, K # 0 and an iv
\* that is a number or a value of a curve (taken as positive): whether d1
\* is finite, an infinity or nan.  numpy divides by zero and takes the
\* logarithm and the root of what is not positive without raising: log(0)
\* is -inf, log and sqrt of a negative are nan, x / 0 is an infinity of the
\* sign of x and 0 / 0 is nan.
d1_of(F, K, T, iv) ==
    LET ratio == Rat(F.num, F.den * K)
        log == IF ratio.num < 0 THEN "nan"
               ELSE IF ratio.num = 0 THEN "-inf"
               ELSE IF ratio.num > ratio.den THEN "positive"
               ELSE IF ratio.num < ratio.den THEN "negative"
               ELSE "zero"
        iv_sign == IF ~IsNum(iv) \/ iv.num > 0 THEN 1 ELSE IF iv.num = 0 THEN 0 ELSE -1
        up == IF iv_sign < 0 THEN "-inf" ELSE "+inf"
        down == IF iv_sign < 0 THEN "+inf" ELSE "-inf"
    IN  IF log = "nan" \/ T.num < 0 THEN "nan"
        ELSE IF T.num = 0 \/ iv_sign = 0
        THEN IF log = "zero" THEN "nan"
             ELSE IF log = "positive" THEN up
             ELSE down
        ELSE IF log = "-inf" THEN down
        ELSE "finite"

\* line 175 with the put's arguments of the normal distribution exchanged
black_76_sum_exchanged(F, K, option_type) ==
    IF option_type = "call"
    THEN << [coef |-> F, cdf |-> "d1", negated |-> FALSE],
            [coef |-> Num(-K), cdf |-> "d2", negated |-> FALSE] >>
    ELSE << [coef |-> Num(K), cdf |-> "d1", negated |-> TRUE],
            [coef |-> Rat(-F.num, F.den), cdf |-> "d2", negated |-> TRUE] >>

\* pricing.price_black_76 lines 175-178: the price as a sum of products
\* coef * norm.cdf(d) or coef * norm.cdf(-d) (negated), the discount factor
\* np.exp(-0 * T) being 1
black_76_sum(F, K, option_type) ==
    IF option_type = "call"
    THEN << [coef |-> F, cdf |-> "d1", negated |-> FALSE],
            [coef |-> Num(-K), cdf |-> "d2", negated |-> FALSE] >>
    ELSE << [coef |-> Num(K), cdf |-> "d2", negated |-> TRUE],
            [coef |-> Rat(-F.num, F.den), cdf |-> "d1", negated |-> TRUE] >>

\* pricing.price_black_76: None when the arithmetic raises (a None operand,
\* the division F / K by zero), nan or the price at an infinite d1 where
\* numpy goes on without raising, else the price as the term of its arguments
price_black_76(F, K, T, iv, option_type) ==
    IF option_type \notin {"call", "put"} THEN None
    ELSE IF ~IsFloat(F) \/ ~IsFloat(T) \/ ~IsFloat(iv) THEN None
    ELSE IF K = 0 THEN None
    ELSE LET d1 == d1_of(F, K, T, iv)
             F_minus_K == Rat(F.num - K * F.den, F.den)
             K_minus_F == Rat(K * F.den - F.num, F.den)
         IN  IF d1 = "nan" THEN NaN
             ELSE IF d1 = "+inf"
             THEN IF option_type = "call" THEN F_minus_K ELSE Num(0)
             ELSE IF d1 = "-inf"
             THEN IF option_type = "call" THEN Num(0) ELSE K_minus_F
             ELSE [kind |-> "black76", F |-> F, K |-> K, T |-> T, iv |-> iv,
                   option_type |-> option_type,
                   sum |-> black_76_sum(F, K, option_type)]

\* list.sort(key=date) is stable: an element goes after the elements whose
\* date is not later
RECURSIVE InsertByDate(_, _)
InsertByDate(sorted, e) ==
    IF sorted = << >> THEN << e >>
    ELSE IF e[2] < Head(sorted)[2] THEN << e >> \o sorted
    ELSE << Head(sorted) >> \o InsertByDate(Tail(sorted), e)

RECURSIVE SortByDate(_)
SortByDate(pairs) ==
    IF pairs = << >> THEN << >>
    ELSE InsertByDate(SortByDate(SubSeq(pairs, 1, Len(pairs) - 1)), pairs[Len(pairs)])

\* pricing.create_synthetic_future_price lines 108-114
existing_dates_of(existing_futures) ==
    SortByDate([i \in 1 .. Len(existing_futures) |->
                   << existing_futures[i], convert_future_name_to_date(existing_futures[i]) >>])

\* pricing.create_synthetic_future_price lines 117-138: the positions (from 1)
\* of prev and next in existing_dates, or bound = FALSE when the loop ends
\* without assigning them
surrounding_futures(existing_dates, target_date) ==
    LET n == Len(existing_dates)
        later == {i \in 2 .. n : existing_dates[i][2] > target_date}
    IN  IF n < 2 THEN [bound |-> FALSE]
        ELSE IF target_date < existing_dates[1][2]
             THEN [bound |-> TRUE, prev |-> 1, next |-> 2, branch |-> "before"]
        ELSE IF target_date > existing_dates[n][2]
             THEN [bound |-> TRUE, prev |-> n - 1, next |-> n, branch |-> "after"]
        ELSE IF later # {}
             THEN LET i == CHOOSE j \in later : \A k \in later : j <= k
                  IN  [bound |-> TRUE, prev |-> i - 1, next |-> i, branch |-> "between"]
        ELSE [bound |-> FALSE]

\* line 114 sorting the list that the caller handed over
existing_futures_sorted_in_place(existing_futures) ==
    [i \in 1 .. Len(existing_futures) |-> existing_dates_of(existing_futures)[i][1]]

\* pricing.create_synthetic_future_price lines 108-114: the caller's list
\* after the call; the pairs are put in a list of their own and that list
\* is the one sorted
existing_futures_after(existing_futures) == existing_futures

\* line 149 starting from the price of the later future
interpolated_price_from_next(prev_future_price, next_future_price, time_diff_target_prev, time_diff_next_prev) ==
    Rat(next_future_price.num * time_diff_next_prev
          + time_diff_target_prev * (next_future_price.num - prev_future_price.num),
        next_future_price.den * time_diff_next_prev)

\* line 149 with the weight of the other end of the pair
interpolated_price_other_weight(prev_future_price, next_future_price, time_diff_target_prev, time_diff_next_prev) ==
    Rat(prev_future_price.num * time_diff_next_prev
          + (time_diff_next_prev - time_diff_target_prev)
              * (next_future_price.num - prev_future_price.num),
        prev_future_price.den * time_diff_next_prev)

\* pricing.create_synthetic_future_price line 149
interpolated_price(prev_future_price, next_future_price, time_diff_target_prev, time_diff_next_prev) ==
    Rat(prev_future_price.num * time_diff_next_prev
          + time_diff_target_prev * (next_future_price.num - prev_future_price.num),
        prev_future_price.den * time_diff_next_prev)

\* pricing.create_synthetic_future_price: the price, or raised = TRUE with the
\* error when it raises; selected is the pair of lines 117-138 and fetched the
\* instruments asked for at lines 140-143
create_synthetic_future_price(ticker, currency, expiry_code, existing_futures) ==
    LET target_future == InstrumentName(currency, expiry_code)
        existing_dates == existing_dates_of(existing_futures)
        target_date == convert_future_name_to_date(target_future)
        sel == surrounding_futures(existing_dates, target_date)
    IN  IF ~sel.bound
        THEN [raised |-> TRUE, error |-> "UnboundLocalError", fetched |-> << >>,
              selected |-> [bound |-> FALSE], price |-> None]
        ELSE
        LET prev_expiry_code == existing_dates[sel.prev][1].expiry
            next_expiry_code == existing_dates[sel.next][1].expiry
            prev_expiry_date == existing_dates[sel.prev][2]
            next_expiry_date == existing_dates[sel.next][2]
            prev_future_price == get_underlying_price(ticker, currency, prev_expiry_code)
            next_future_price == get_underlying_price(ticker, currency, next_expiry_code)
            time_diff_target_prev == target_date - prev_expiry_date
            time_diff_next_prev == next_expiry_date - prev_expiry_date
            fetched == << underlying_instrument(currency, prev_expiry_code),
                          underlying_instrument(currency, next_expiry_code) >>
            selected == [bound |-> TRUE, branch |-> sel.branch,
                         prev |-> existing_dates[sel.prev][1],
                         next |-> existing_dates[sel.next][1]]
        IN  IF time_diff_next_prev = 0
            THEN [raised |-> TRUE, error |-> "ZeroDivisionError", fetched |-> fetched,
                  selected |-> selected, price |-> None]
            ELSE IF ~IsNum(prev_future_price) \/ ~IsNum(next_future_price)
            THEN [raised |-> TRUE, error |-> "TypeError", fetched |-> fetched,
                  selected |-> selected, price |-> None]
            ELSE [raised |-> FALSE, error |-> "", fetched |-> fetched,
                  selected |-> selected,
                  price |-> interpolated_price(prev_future_price, next_future_price,
                                               time_diff_target_prev, time_diff_next_prev)]

\* the elements of a sequence
Range(s) == {s[i] : i \in 1 .. Len(s)}

\* lines 74-77 without the test of the currency
forward_route_any_currency(currency, expiry_code, existing_futures) ==
    LET future_name == IF currency \notin DatedFuturesCurrencies
                       THEN InstrumentName(currency, PERPETUAL)
                       ELSE InstrumentName(currency, expiry_code)
    IN  IF future_name \notin Range(existing_futures) THEN "synthetic" ELSE "direct"

\* pricing.price_option lines 74-77: which way the forward is resolved
forward_route(currency, expiry_code, existing_futures) ==
    LET future_name == IF currency \notin DatedFuturesCurrencies
                       THEN InstrumentName(currency, PERPETUAL)
                       ELSE InstrumentName(currency, expiry_code)
    IN  IF future_name \notin Range(existing_futures) /\ currency \in DatedFuturesCurrencies
        THEN "synthetic" ELSE "direct"

\* pricing.price_option: the price (None when anything inside raised), the
\* way the forward was resolved, the instruments fetched, and the arguments
\* of the call of price_black_76 at line 81 when that line is reached
price_option(ticker, today, currency, expiry_code, strike, option_type, iv, existing_futures) ==
    LET time_to_expiry == convert_expiration_to_years(expiry_code, today)
        route == forward_route(currency, expiry_code, existing_futures)
        synth == create_synthetic_future_price(ticker, currency, expiry_code, existing_futures)
        future_price ==
            IF route = "synthetic"
            THEN synth.price
            ELSE get_underlying_price(ticker, currency, expiry_code)
        fetched ==
            IF route = "synthetic" THEN synth.fetched
            ELSE << underlying_instrument(currency, expiry_code) >>
    IN  [price |-> IF future_price = None THEN None
                   ELSE price_black_76(future_price, strike, time_to_expiry, iv, option_type),
         route |-> route,
         fetched |-> fetched,
         future_price |-> future_price,
         time_to_expiry |-> time_to_expiry,
         black_76_args |->
             IF future_price = None THEN << >>
             ELSE << [F |-> future_price, K |-> strike, T |-> time_to_expiry, iv |-> iv,
                      option_type |-> option_type] >>]

\* ------------------------------------------------------------------ state
VARIABLES
    currency,           \* --currency
    expiry_code,        \* --expiry-code
    existing_futures,   \* the futures listing (main_loop line 78)
    today,              \* the day of the run
    ticker,             \* the venue's mark prices during a call of the pricing code
    call,               \* the last call of the pricing code and what it returned
    t1,                 \* --t1
    t2,                 \* --t2
    strikes,            \* --strikes
    pc,                 \* where main_loop stands
    error,              \* the exception that ended main_loop
    standard_strikes,   \* main_loop line 75
    number_of_iterations,
    iv_interpolation_needed,
    iteration,          \* how many cycles have begun
    now,                \* time.time(), in seconds
    start_time,
    snapshots,          \* how many times the quoted grid has been fetched
    fetches,            \* how many times the futures listing and the index price have been fetched
    call_strike_iv_price_dict,
    put_strike_iv_price_dict,
    index_price,
    call_iv_fn,
    put_iv_fn,
    output_dict,
    tasks,              \* the process_strike task of each requested strike
    output_file,        \* the number of appends, and the rows of the last one until the next cycle begins
    execution_time,
    sleep_time,
    waited              \* how long main_loop slept after the last cycle

pricing_vars == << currency, expiry_code, existing_futures, today, ticker, call >>

params == << t1, t2, strikes >>

init_vars == << standard_strikes, number_of_iterations, iv_interpolation_needed >>

cycle_vars == << snapshots, call_strike_iv_price_dict, put_strike_iv_price_dict,
                 index_price, call_iv_fn, put_iv_fn, output_dict, tasks >>

clock_vars == << now, start_time, execution_time, sleep_time, waited >>

loop_vars == << params, pc, error, init_vars, iteration, cycle_vars, clock_vars, output_file,
               fetches >>

vars == << pricing_vars, loop_vars >>

\* the listings the venue can return: distinct dated futures, spelled as
\* listed, in any order
RECURSIVE ListingsOfLength(_)
ListingsOfLength(n) ==
    IF n = 0 THEN {<< >>}
    ELSE {Append(l, d) : l \in ListingsOfLength(n - 1), d \in Dates} 

DistinctListings ==
    {l \in UNION {ListingsOfLength(n) : n \in 0 .. MaxFutures} :
        \A i, j \in 1 .. Len(l) : i # j => l[i] # l[j]}

\* the lists that name one future twice: the pair chosen from them has one date
RepeatedListings == {<< d, d >> : d \in Dates}

Listed(d) == [date |-> d, spelling |-> "listed"]

FuturesOf(cur, l) == [i \in 1 .. Len(l) |-> InstrumentName(cur, Listed(l[i]))]

NoCall == [op |-> "none"]

\* main_loop has not been called
LoopNotStarted ==
    /\ t1 = 0 /\ t2 = 0 /\ strikes = << >>
    /\ pc = "off" /\ error = ""
    /\ standard_strikes = {} /\ number_of_iterations = 0
    /\ iv_interpolation_needed = FALSE
    /\ iteration = 0 /\ now = 0 /\ start_time = 0 /\ snapshots = 0
    /\ call_strike_iv_price_dict = << >> /\ put_strike_iv_price_dict = << >>
    /\ index_price = None /\ call_iv_fn = None /\ put_iv_fn = None
    /\ output_dict = << >> /\ tasks = << >>
    /\ output_file = [appends |-> 0, rows |-> << >>]
    /\ fetches = [futures |-> 0, index |-> 0]
    /\ execution_time = 0 /\ sleep_time = 0 /\ waited = 0

\* ------------------------------------------------------------------ the pricing code, called on its own
InitPricing ==
    /\ currency \in SupportedCurrencies
    /\ expiry_code \in ExpiryCodes
    /\ today \in 0 .. MaxDate
    /\ \E l \in DistinctListings \cup RepeatedListings :
          existing_futures = FuturesOf(currency, l)
    /\ ticker \in Tickers
    /\ call = NoCall
    /\ LoopNotStarted

CallPriceOption ==
    /\ call = NoCall
    /\ \E option_type \in {"call", "put"} :
         call' = [op |-> "price_option",
                  option_type |-> option_type,
                  out |-> price_option(ticker, today, currency, expiry_code, 1,
                                       option_type, Rat(1, 2), existing_futures)]
    /\ UNCHANGED << currency, expiry_code, existing_futures, today, ticker, loop_vars >>

CallCreateSyntheticFuturePrice ==
    /\ call = NoCall
    /\ forward_route(currency, expiry_code, existing_futures) = "synthetic"
    /\ call' = [op |-> "create_synthetic_future_price",
                given |-> existing_futures,
                out |-> create_synthetic_future_price(ticker, currency, expiry_code,
                                                      existing_futures)]
    /\ existing_futures' = existing_futures_after(existing_futures)
    /\ UNCHANGED << currency, expiry_code, today, ticker, loop_vars >>

\* a second call with the list as the first call left it and the venue's
\* prices as they were
CallCreateSyntheticFuturePriceAgain ==
    /\ call.op = "create_synthetic_future_price"
    /\ call' = [op |-> "create_synthetic_future_price, twice",
                given |-> call.given,
                out |-> call.out,
                again |-> create_synthetic_future_price(ticker, currency, expiry_code,
                                                        existing_futures)]
    /\ existing_futures' = existing_futures_after(existing_futures)
    /\ UNCHANGED << currency, expiry_code, today, ticker, loop_vars >>

NextPricing ==
    \/ CallPriceOption
    \/ CallCreateSyntheticFuturePrice
    \/ CallCreateSyntheticFuturePriceAgain

SpecPricing == InitPricing /\ [][NextPricing]_vars

\* ------------------------------------------------------------------ the venue's quoted grid
Strikes == 1 .. MaxStrike

\* the venue's quotes move with every fetch: the values of the serial-th
\* fetch of the grid (mark_iv / 100, and the mark price rounded to 4 places)
QuotedIV(serial, strike, option_type) ==
    Rat(10 * serial + 2 * strike + (IF option_type = "put" THEN 1 ELSE 0), 100)

QuotedPrice(serial, strike, option_type) ==
    Num(100 * serial + 2 * strike + (IF option_type = "put" THEN 1 ELSE 0))

\* the grid of the first fetch kept and returned again at every fetch
strike_iv_price_dict_cached(serial, quoted, option_type) ==
    [k \in quoted |-> << QuotedIV(1, k, option_type), QuotedPrice(1, k, option_type) >>]

\* api_requests.get_strike_iv_price_dict lines 80-92: strike -> (iv, mark_price)
strike_iv_price_dict(serial, quoted, option_type) ==
    [k \in quoted |-> << QuotedIV(serial, k, option_type), QuotedPrice(serial, k, option_type) >>]

\* the value of a raise
Raise(e) == [kind |-> "raise", error |-> e]
Raised(v) == v.kind = "raise"

\* sorted(d.items()): the (key, value) pairs by ascending key
RECURSIVE sorted_items(_)
sorted_items(d) ==
    IF DOMAIN d = {} THEN << >>
    ELSE LET k == CHOOSE m \in DOMAIN d : \A j \in DOMAIN d : m <= j
         IN  << << k, d[k] >> >> \o sorted_items([j \in DOMAIN d \ {k} |-> d[j]])

\* line 24 taking the quoted price of each sample instead of its IV
iv_interpolator_of_prices(strike_iv) ==
    LET sorted_strikes_ivs == sorted_items(strike_iv)
        n == Len(sorted_strikes_ivs)
    IN  IF n < 2 THEN Raise("ValueError at pricing.py:25")
        ELSE [kind |-> "PchipInterpolator",
              x |-> [i \in 1 .. n |-> sorted_strikes_ivs[i][1]],
              y |-> [i \in 1 .. n |-> sorted_strikes_ivs[i][2][2]]]

\* pricing.iv_interpolator: PchipInterpolator(strikes, implied_vols), which
\* raises ValueError for fewer than 2 points
iv_interpolator(strike_iv) ==
    LET sorted_strikes_ivs == sorted_items(strike_iv)
        n == Len(sorted_strikes_ivs)
    IN  IF n < 2 THEN Raise("ValueError at pricing.py:25")
        ELSE [kind |-> "PchipInterpolator",
              x |-> [i \in 1 .. n |-> sorted_strikes_ivs[i][1]],
              y |-> [i \in 1 .. n |-> sorted_strikes_ivs[i][2][1]]]

\* call_iv_fn(strike): the curve goes through its points; calling None raises
evaluate(iv_fn, strike) ==
    IF iv_fn = None THEN Raise("TypeError at main.py:36")
    ELSE IF \E i \in 1 .. Len(iv_fn.x) : iv_fn.x[i] = strike
    THEN iv_fn.y[CHOOSE i \in 1 .. Len(iv_fn.x) : iv_fn.x[i] = strike]
    ELSE [kind |-> "pchip", x |-> iv_fn.x, y |-> iv_fn.y, at |-> strike]

\* lines 28-39 with the call IV read from the put quotes and the put IV from the call quotes
resolve_iv_swapped(strike, grid, call_fn, put_fn, calls, puts) ==
    IF strike \in grid
    THEN IF strike \notin DOMAIN calls \/ strike \notin DOMAIN puts
         THEN [raised |-> TRUE, error |-> "KeyError at main.py:30",
               call_iv |-> None, put_iv |-> None,
               call_mark_price_act |-> None, put_mark_price_act |-> None]
         ELSE [raised |-> FALSE, error |-> "",
               call_iv |-> puts[strike][1], put_iv |-> calls[strike][1],
               call_mark_price_act |-> calls[strike][2],
               put_mark_price_act |-> puts[strike][2]]
    ELSE [raised |-> FALSE, error |-> "",
          call_iv |-> evaluate(put_fn, strike), put_iv |-> evaluate(call_fn, strike),
          call_mark_price_act |-> None, put_mark_price_act |-> None]

\* main.process_strike lines 28-39: the IVs and the quoted prices of a strike
resolve_iv(strike, grid, call_fn, put_fn, calls, puts) ==
    IF strike \in grid
    THEN IF strike \notin DOMAIN calls
         THEN [raised |-> TRUE, error |-> "KeyError at main.py:30",
               call_iv |-> None, put_iv |-> None,
               call_mark_price_act |-> None, put_mark_price_act |-> None]
         ELSE IF strike \notin DOMAIN puts
         THEN [raised |-> TRUE, error |-> "KeyError at main.py:31",
               call_iv |-> None, put_iv |-> None,
               call_mark_price_act |-> None, put_mark_price_act |-> None]
         ELSE [raised |-> FALSE, error |-> "",
               call_iv |-> calls[strike][1], put_iv |-> puts[strike][1],
               call_mark_price_act |-> calls[strike][2],
               put_mark_price_act |-> puts[strike][2]]
    ELSE LET c == evaluate(call_fn, strike)
             p == evaluate(put_fn, strike)
         IN  IF Raised(c) \/ Raised(p)
             THEN [raised |-> TRUE, error |-> "TypeError at main.py:36",
                   call_iv |-> None, put_iv |-> None,
                   call_mark_price_act |-> None, put_mark_price_act |-> None]
             ELSE [raised |-> FALSE, error |-> "",
                   call_iv |-> c, put_iv |-> p,
                   call_mark_price_act |-> None, put_mark_price_act |-> None]

\* pricing.normalize_usd_price_to_currency
normalize_usd_price_to_currency(price, index) ==
    IF price = None \/ index = None THEN None
    ELSE [kind |-> "round4", of |-> [kind |-> "quotient", price |-> price, index_price |-> index]]

\* round(x, 4), which raises TypeError for None
round4(x) ==
    IF x = None THEN Raise("TypeError at main.py:52")
    ELSE [kind |-> "round4", of |-> x]

\* main.process_strike lines 48-53
settled_price(cur, price, index) ==
    IF cur \in AssetSettledCurrencies
    THEN normalize_usd_price_to_currency(price, index)
    ELSE round4(price)

\* lines 55-71 going through the strikes from the highest to the lowest
save_rows_descending(out, timestamp) ==
    LET items == sorted_items(out)
        n == Len(items)
    IN  [j \in 1 .. 2 * n |->
            LET strike == items[n + 1 - (j + 1) \div 2][1]
                data == items[n + 1 - (j + 1) \div 2][2]
            IN  IF j % 2 = 1
                THEN [timestamp |-> timestamp, strike_price |-> strike,
                      option_type |-> "call",
                      deribit_mark_price |-> data.deribit_call_mark_price,
                      computed_mark_price |-> data.call_mark_price]
                ELSE [timestamp |-> timestamp, strike_price |-> strike,
                      option_type |-> "put",
                      deribit_mark_price |-> data.deribit_put_mark_price,
                      computed_mark_price |-> data.put_mark_price]]

\* utils.save lines 55-71: a call row then a put row per strike, by ascending strike
save_rows(out, timestamp) ==
    LET items == sorted_items(out)
    IN  [j \in 1 .. 2 * Len(items) |->
            LET strike == items[(j + 1) \div 2][1]
                data == items[(j + 1) \div 2][2]
            IN  IF j % 2 = 1
                THEN [timestamp |-> timestamp, strike_price |-> strike,
                      option_type |-> "call",
                      deribit_mark_price |-> data.deribit_call_mark_price,
                      computed_mark_price |-> data.call_mark_price]
                ELSE [timestamp |-> timestamp, strike_price |-> strike,
                      option_type |-> "put",
                      deribit_mark_price |-> data.deribit_put_mark_price,
                      computed_mark_price |-> data.put_mark_price]]

\* int(t1 / t2) rounded up instead of truncated
int_div_up(a, b) == (a + b - 1) \div b

\* main_loop line 80: int(t1 / t2), truncation toward zero, b # 0
int_div(a, b) ==
    IF (a < 0) = (b < 0) THEN Abs(a) \div Abs(b) ELSE -(Abs(a) \div Abs(b))

\* the wait without the test of line 130
sleep_request_unclamped(interval, duration) == interval - duration

\* main_loop lines 129-131: the time slept after a cycle, 0 when sleep is not called
sleep_request(interval, duration) ==
    IF interval - duration > 0 THEN interval - duration ELSE 0

\* lines 84-85 looking at the first requested strike only
interpolation_needed_first_strike(requested, grid) == requested[1] \notin grid

\* main_loop lines 81-85: whether a requested strike is off the standard grid
interpolation_needed(requested, grid) == Range(requested) \ grid # {}

\* a gather that returns with the first finished task
gather_returned_first(ts) == \E i \in DOMAIN ts : ts[i].pc = "done"

\* main_loop line 122: gather returns when every task has finished
gather_returned(ts) == \A i \in DOMAIN ts : ts[i].pc = "done"

NewTask ==
    [pc |-> "new", call_iv |-> None, put_iv |-> None,
     call_mark_price_act |-> None, put_mark_price_act |-> None,
     call_mark_price_pred |-> None, put_mark_price_pred |-> None]

\* ------------------------------------------------------------------ main_loop
\* the runs: one currency of each kind (settled in the asset with dated
\* futures, settled in USDC with dated futures, settled in USDC with a
\* perpetual), strike lists in and out of order and with a repeated strike,
\* one expiry and a listing that surrounds it
RunCurrencies == {"BTC", "PAXG_USDC", "SOL_USDC"}
RequestedStrikes == {<< 1 >>, << 2 >>, << 1, 2 >>, << 2, 1 >>, << 2, 2 >>}
RunExpiryCodes == {Listed(2), Malformed}
RunDays == {0}
RunListings == {<< 1, 3 >>}

\* the venue's prices at the moment of a leg: every instrument quoted, or
\* none (the retries exhausted)
RunTickers == {TickerWithout({}), TickerWithout(0 .. MaxDate)}

\* the strikes a snapshot can quote: the whole grid, the grid without its
\* lowest strike, nothing
QuotedSets == {Strikes, Strikes \ {1}, {}}

\* api_requests.get_strike_iv_price_dict line 70: only the instruments whose
\* name contains the expiry code are kept, none for a malformed code
QuotedFor(code) == IF code.spelling = "malformed" THEN {{}} ELSE QuotedSets

\* the index price of the venue at the n-th fetch of it
QuotedIndexPrice(n) == Num(50 * n)

\* main_loop line 78: one more request for the futures listing
after_get_existing_futures(f) == [f EXCEPT !.futures = @ + 1]

\* line 94 with the listing of line 78 asked for again in every cycle
after_get_index_price_and_futures(f) == [f EXCEPT !.index = @ + 1, !.futures = @ + 1]

\* main_loop line 94: one more request for the index price
after_get_index_price(f) == [f EXCEPT !.index = @ + 1]

\* the currencies that main.py line 152 turns away
UnsupportedCurrencies == {"DOGE_USDC"}

\* the program is started with any currency and with times that are not
\* negative (t2 = 0 included)
Init ==
    /\ currency \in RunCurrencies \cup UnsupportedCurrencies
    /\ expiry_code \in RunExpiryCodes
    /\ today \in RunDays
    /\ t1 \in 0 .. MaxT1
    /\ t2 \in 0 .. MaxT2
    /\ strikes \in RequestedStrikes
    /\ existing_futures = << >>
    /\ ticker = TickerWithout({})
    /\ call = NoCall
    /\ pc = "main" /\ error = ""
    /\ standard_strikes = {} /\ number_of_iterations = 0
    /\ iv_interpolation_needed = FALSE
    /\ iteration = 0 /\ now = 0 /\ start_time = 0 /\ snapshots = 0
    /\ call_strike_iv_price_dict = << >> /\ put_strike_iv_price_dict = << >>
    /\ index_price = None /\ call_iv_fn = None /\ put_iv_fn = None
    /\ output_dict = << >> /\ tasks = << >>
    /\ output_file = [appends |-> 0, rows |-> << >>]
    /\ fetches = [futures |-> 0, index |-> 0]
    /\ execution_time = 0 /\ sleep_time = 0 /\ waited = 0

\* an unhandled exception leaves main_loop: asyncio.run re-raises it and
\* cancels the tasks that are left
Crash(e) == pc' = "crashed" /\ error' = e

\* main.py lines 139-156: parser.error ends the program for a currency that
\* is not supported; nothing else is tested before main_loop is called
ParseArgs ==
    /\ pc = "main"
    /\ pc' = IF currency \in SupportedCurrencies THEN "standard_strikes" ELSE "rejected"
    /\ UNCHANGED << pricing_vars, params, error, init_vars, iteration, cycle_vars,
                    clock_vars, output_file, fetches >>

\* lines 73-75: the standard strikes are the call strikes of a first snapshot;
\* an absent answer is iterated at api_requests.py line 68
FetchStandardStrikes ==
    /\ pc = "standard_strikes"
    /\ snapshots' = snapshots + 1
    /\ \/ /\ Crash("TypeError at api_requests.py:68")
          /\ UNCHANGED << standard_strikes, call_strike_iv_price_dict >>
       \/ /\ \E quoted_calls \in QuotedFor(expiry_code) :
               /\ call_strike_iv_price_dict' =
                     strike_iv_price_dict(snapshots', quoted_calls, "call")
               /\ standard_strikes' = DOMAIN call_strike_iv_price_dict'
          /\ pc' = "existing_futures"
          /\ UNCHANGED error
    /\ UNCHANGED << pricing_vars, params, number_of_iterations, iv_interpolation_needed,
                    iteration, put_strike_iv_price_dict,
                    index_price, call_iv_fn, put_iv_fn, output_dict, tasks,
                    clock_vars, output_file,
                    fetches >>

\* lines 78-85: the futures listing (an absent answer is iterated at
\* api_requests.py line 113), the number of iterations and the flag
FetchExistingFutures ==
    /\ pc = "existing_futures"
    /\ fetches' = after_get_existing_futures(fetches)
    /\ \/ /\ Crash("TypeError at api_requests.py:113")
          /\ UNCHANGED << existing_futures, number_of_iterations, iv_interpolation_needed >>
       \/ /\ \E l \in RunListings : existing_futures' = FuturesOf(currency, l)
          /\ IF t2 = 0
             THEN /\ Crash("ZeroDivisionError at main.py:80")
                  /\ UNCHANGED << number_of_iterations, iv_interpolation_needed >>
             ELSE /\ number_of_iterations' = int_div(t1, t2)
                  /\ iv_interpolation_needed' = interpolation_needed(strikes, standard_strikes)
                  /\ pc' = "loop"
                  /\ UNCHANGED error
    /\ UNCHANGED << currency, expiry_code, today, ticker, call, params, standard_strikes,
                    iteration, cycle_vars, clock_vars, output_file >>

\* lines 87-91: a cycle begins with a fresh snapshot of the grid
BeginCycle ==
    /\ pc = "loop"
    /\ iteration < number_of_iterations
    /\ iteration' = iteration + 1
    /\ start_time' = now
    /\ snapshots' = snapshots + 1
    /\ \/ /\ Crash("TypeError at api_requests.py:68")
          /\ UNCHANGED << call_strike_iv_price_dict, put_strike_iv_price_dict >>
       \/ /\ \E quoted_calls \in QuotedFor(expiry_code),
                  quoted_puts \in QuotedFor(expiry_code) :
               /\ call_strike_iv_price_dict' =
                     strike_iv_price_dict(snapshots', quoted_calls, "call")
               /\ put_strike_iv_price_dict' =
                     strike_iv_price_dict(snapshots', quoted_puts, "put")
          /\ pc' = "index_price"
          /\ UNCHANGED error
    /\ output_file' = [output_file EXCEPT !.rows = << >>]
    /\ UNCHANGED << pricing_vars, params, init_vars, index_price, call_iv_fn, put_iv_fn,
                    output_dict, tasks, now, execution_time, sleep_time, waited,
                    fetches >>

\* line 87: the loop ends after number_of_iterations cycles
EndLoop ==
    /\ pc = "loop"
    /\ iteration >= number_of_iterations
    /\ pc' = "done"
    /\ UNCHANGED << pricing_vars, params, error, init_vars, iteration, cycle_vars,
                    clock_vars, output_file,
                    fetches >>

\* lines 94-119: the index price, the curves when needed, and one task per
\* requested strike
StartTasks ==
    /\ pc = "index_price"
    /\ fetches' = after_get_index_price(fetches)
    /\ \E fetched \in {None, QuotedIndexPrice(fetches'.index)} : index_price' = fetched
    /\ LET c == IF iv_interpolation_needed
                THEN iv_interpolator(call_strike_iv_price_dict) ELSE None
           p == IF iv_interpolation_needed
                THEN iv_interpolator(put_strike_iv_price_dict) ELSE None
       IN  IF Raised(c) \/ Raised(p)
           THEN /\ Crash("ValueError at pricing.py:25")
                /\ UNCHANGED << call_iv_fn, put_iv_fn, output_dict, tasks >>
           ELSE /\ call_iv_fn' = c
                /\ put_iv_fn' = p
                /\ output_dict' = << >>
                /\ tasks' = [i \in 1 .. Len(strikes) |-> NewTask]
                /\ pc' = "gather"
                /\ UNCHANGED error
    /\ UNCHANGED << pricing_vars, params, init_vars, iteration, snapshots,
                    call_strike_iv_price_dict, put_strike_iv_price_dict,
                    clock_vars, output_file >>

\* process_strike lines 28-43 of the task of strikes[i]; an exception of a
\* task is re-raised by the gather of line 122 and leaves main_loop
ProcessStrikeResolveIV(i) ==
    /\ pc = "gather"
    /\ tasks[i].pc = "new"
    /\ LET r == resolve_iv(strikes[i], standard_strikes, call_iv_fn, put_iv_fn,
                           call_strike_iv_price_dict, put_strike_iv_price_dict)
       IN  IF r.raised
           THEN /\ tasks' = [tasks EXCEPT ![i].pc = "raised"]
                /\ Crash(r.error)
           ELSE /\ tasks' = [tasks EXCEPT ![i] =
                     [pc |-> "pricing", call_iv |-> r.call_iv, put_iv |-> r.put_iv,
                      call_mark_price_act |-> r.call_mark_price_act,
                      put_mark_price_act |-> r.put_mark_price_act,
                      call_mark_price_pred |-> None, put_mark_price_pred |-> None]]
                /\ UNCHANGED << pc, error >>
    /\ UNCHANGED << pricing_vars, params, init_vars, iteration, snapshots,
                    call_strike_iv_price_dict, put_strike_iv_price_dict, index_price,
                    call_iv_fn, put_iv_fn, output_dict, clock_vars, output_file,
                    fetches >>

\* process_strike lines 45-60 of the task of strikes[i]: both legs are
\* priced, each against the venue's prices of its own moment, then settled
\* and stored
ProcessStrikePrice(i) ==
    /\ pc = "gather"
    /\ tasks[i].pc = "pricing"
    /\ \E call_ticker \in RunTickers, put_ticker \in RunTickers :
         LET c == price_option(call_ticker, today, currency, expiry_code, strikes[i],
                               "call", tasks[i].call_iv, existing_futures).price
             p == price_option(put_ticker, today, currency, expiry_code, strikes[i],
                               "put", tasks[i].put_iv, existing_futures).price
             cs == settled_price(currency, c, index_price)
             ps == settled_price(currency, p, index_price)
             priced == [tasks[i] EXCEPT !.call_mark_price_pred = c,
                                        !.put_mark_price_pred = p]
         IN  IF Raised(cs) \/ Raised(ps)
             THEN /\ tasks' = [tasks EXCEPT ![i] = [priced EXCEPT !.pc = "raised"]]
                  /\ Crash("TypeError at main.py:52")
                  /\ UNCHANGED output_dict
             ELSE /\ tasks' = [tasks EXCEPT ![i] = [priced EXCEPT !.pc = "done"]]
                  /\ output_dict' =
                        [k \in DOMAIN output_dict \cup {strikes[i]} |->
                            IF k = strikes[i]
                            THEN [call_mark_price |-> cs,
                                  deribit_call_mark_price |-> tasks[i].call_mark_price_act,
                                  put_mark_price |-> ps,
                                  deribit_put_mark_price |-> tasks[i].put_mark_price_act]
                            ELSE output_dict[k]]
                  /\ UNCHANGED << pc, error >>
    /\ UNCHANGED << pricing_vars, params, init_vars, iteration, snapshots,
                    call_strike_iv_price_dict, put_strike_iv_price_dict, index_price,
                    call_iv_fn, put_iv_fn, clock_vars, output_file,
                    fetches >>

\* lines 122-129: once the gather has returned, the cycle is saved and timed
SaveCycle ==
    /\ pc = "gather"
    /\ gather_returned(tasks)
    /\ \E duration \in 0 .. MaxDuration :
         /\ now' = start_time + duration
         /\ execution_time' = duration
         /\ sleep_time' = t2 - duration
    /\ output_file' = [appends |-> output_file.appends + 1,
                       rows |-> save_rows(output_dict, now')]
    /\ pc' = "sleep"
    /\ UNCHANGED << pricing_vars, params, error, init_vars, iteration, cycle_vars,
                    start_time, waited,
                    fetches >>

\* lines 130-131: the wait before the next cycle
Sleep ==
    /\ pc = "sleep"
    /\ waited' = sleep_request(t2, execution_time)
    /\ now' = now + waited'
    /\ pc' = "loop"
    /\ UNCHANGED << pricing_vars, params, error, init_vars, iteration, cycle_vars,
                    start_time, execution_time, sleep_time, output_file,
                    fetches >>

Next ==
    \/ ParseArgs
    \/ FetchStandardStrikes
    \/ FetchExistingFutures
    \/ BeginCycle
    \/ EndLoop
    \/ StartTasks
    \/ \E i \in DOMAIN tasks : ProcessStrikeResolveIV(i)
    \/ \E i \in DOMAIN tasks : ProcessStrikePrice(i)
    \/ SaveCycle
    \/ Sleep

Spec == Init /\ [][Next]_vars

\* ------------------------------------------------------------------ the formulas, called on their own
\* the arguments of price_black_76: in and out of the domain of the formula
ForwardInputs == {Num(f) : f \in -1 .. MaxForward}
StrikeInputs == -1 .. MaxStrike
TimeInputs == {Rat(d, 365) : d \in -1 .. MaxDate}
VolInputs == {Num(0), Rat(1, 2)}

InitFormulas ==
    /\ currency = "BTC"
    /\ expiry_code = Listed(1)
    /\ today = 0
    /\ existing_futures = << >>
    /\ ticker = TickerWithout({})
    /\ call = NoCall
    /\ LoopNotStarted

\* price_black_76 for a call and for a put with the same F, K, T and iv
CallPriceBlack76 ==
    /\ call = NoCall
    /\ \E F \in ForwardInputs, K \in StrikeInputs, T \in TimeInputs, iv \in VolInputs :
         call' = [op |-> "price_black_76", F |-> F, K |-> K, T |-> T, iv |-> iv,
                  out |-> [option_type \in {"call", "put"} |->
                              price_black_76(F, K, T, iv, option_type)]]
    /\ UNCHANGED << currency, expiry_code, existing_futures, today, ticker, loop_vars >>

\* a curve of two futures, 10 and 20 days out, priced 100000 and 101000,
\* and targets before, between and after them
CurveInputs == << [date |-> 10, price |-> 100000], [date |-> 20, price |-> 101000] >>
TargetInputs == {5, 10, 15, 25}

\* create_synthetic_future_price on that curve, listed in either order
CallCreateSyntheticFuturePriceOnCurve ==
    /\ call = NoCall
    /\ \E target \in TargetInputs, order \in {<< 1, 2 >>, << 2, 1 >>} :
         LET listing == [i \in 1 .. 2 |->
                            InstrumentName(currency, Listed(CurveInputs[order[i]].date))]
             prices == [d \in {CurveInputs[i].date : i \in 1 .. 2} |->
                           Num(CurveInputs[CHOOSE i \in 1 .. 2 : CurveInputs[i].date = d].price)]
         IN  call' = [op |-> "create_synthetic_future_price on the curve",
                      target |-> target,
                      given |-> listing,
                      out |-> create_synthetic_future_price(
                                  prices, currency,
                                  [date |-> target, spelling |-> "other"], listing)]
    /\ UNCHANGED << currency, expiry_code, existing_futures, today, ticker, loop_vars >>

\* the sample mappings handed to iv_interpolator, as the sequence of their
\* insertions: distinct strikes in any order, each with the (IV, price) of
\* one of two fetches
RECURSIVE InsertionsOfLength(_)
InsertionsOfLength(n) ==
    IF n = 0 THEN {<< >>}
    ELSE {Append(s, << k, << QuotedIV(serial, k, "call"), QuotedPrice(serial, k, "call") >> >>) :
            s \in InsertionsOfLength(n - 1), k \in Strikes, serial \in 1 .. 2}

SampleInputs ==
    {s \in UNION {InsertionsOfLength(n) : n \in 0 .. MaxStrike} :
        \A i, j \in 1 .. Len(s) : i # j => s[i][1] # s[j][1]}

\* the dict that holds the inserted items
dict_of(items) ==
    [k \in {items[i][1] : i \in 1 .. Len(items)} |->
        items[CHOOSE i \in 1 .. Len(items) : items[i][1] = k][2]]

\* iv_interpolator on a mapping, and the curve evaluated at every sample
CallIvInterpolator ==
    /\ call = NoCall
    /\ \E items \in SampleInputs :
         LET fn == iv_interpolator(dict_of(items))
         IN  call' = [op |-> "iv_interpolator",
                      items |-> items,
                      out |-> fn,
                      at |-> IF Raised(fn) THEN << >>
                             ELSE [k \in DOMAIN dict_of(items) |-> evaluate(fn, k)]]
    /\ UNCHANGED << currency, expiry_code, existing_futures, today, ticker, loop_vars >>

\* what one session.get of fetch_data can meet: an answer of status 200
\* with a "result" field, one of status 200 without it, an answer of
\* another status, an exception
Responses == {"result", "no result", "status 500", "exception"}

\* the condition of line 24 with the test of line 26 left out
attempt_returns_any_200(response) == response \in {"result", "no result"}

\* api_requests.fetch_data lines 24-27: the attempt that returns
attempt_returns(response) == response = "result"

\* fetch_data is called with retries attempts allowed
CallFetchData ==
    /\ call = NoCall
    /\ \E retries \in 0 .. MaxRetries :
         call' = [op |-> "fetch_data", retries |-> retries, pc |-> "loop",
                  attempts |-> << >>, value |-> None]
    /\ UNCHANGED << currency, expiry_code, existing_futures, today, ticker, loop_vars >>

\* lines 21-33: one more attempt, made when the one before it is over; the
\* n-th answer with a "result" field carries the result n
FetchDataAttempt ==
    /\ call.op = "fetch_data" /\ call.pc = "loop"
    /\ Len(call.attempts) < call.retries
    /\ \E response \in Responses :
         call' = IF attempt_returns(response)
                 THEN [call EXCEPT !.attempts = Append(@, response),
                                   !.pc = "returned",
                                   !.value = Num(Len(call.attempts) + 1)]
                 ELSE [call EXCEPT !.attempts = Append(@, response)]
    /\ UNCHANGED << currency, expiry_code, existing_futures, today, ticker, loop_vars >>

\* lines 35-36: the loop is over, None is returned
FetchDataExhausted ==
    /\ call.op = "fetch_data" /\ call.pc = "loop"
    /\ Len(call.attempts) >= call.retries
    /\ call' = [call EXCEPT !.pc = "returned", !.value = None]
    /\ UNCHANGED << currency, expiry_code, existing_futures, today, ticker, loop_vars >>

NextFormulas ==
    \/ CallPriceBlack76
    \/ CallCreateSyntheticFuturePriceOnCurve
    \/ CallIvInterpolator
    \/ CallFetchData
    \/ FetchDataAttempt
    \/ FetchDataExhausted

SpecFormulas == InitFormulas /\ [][NextFormulas]_vars

\* ================================================================== claims

\* the dates of the known futures, and what "next to each other by date" means
KnownDates == {existing_futures[i].expiry.date : i \in 1 .. Len(existing_futures)}
EarliestKnown == CHOOSE d \in KnownDates : \A e \in KnownDates : d <= e
LatestKnown == CHOOSE d \in KnownDates : \A e \in KnownDates : e <= d
AdjacentKnown(a, b) ==
    /\ a \in KnownDates /\ b \in KnownDates /\ a < b
    /\ ~\E c \in KnownDates : a < c /\ c < b
Reorderings ==
    {FuturesOf(currency, l) : l \in {m \in DistinctListings :
        {m[i] : i \in 1 .. Len(m)} = KnownDates /\ Len(m) = Len(existing_futures)}}

\* C7: with at least two distinct known dates and a target that is not
\* listed, create_synthetic_future_price selects the first two futures by
\* date for a target before the earliest date, the last two for a target
\* after the latest, and otherwise an adjacent pair with
\* prev.date <= target.date <= next.date (the earliest and the latest date
\* included), whatever the order of the list.
C7_SelectsSurroundingPair ==
    (call.op = "create_synthetic_future_price" /\ Cardinality(KnownDates) >= 2) =>
        LET t == expiry_code.date
            sel == call.out.selected
        IN  /\ sel.bound
            /\ sel.prev \in Range(existing_futures)
            /\ sel.next \in Range(existing_futures)
            /\ AdjacentKnown(sel.prev.expiry.date, sel.next.expiry.date)
            /\ IF t < EarliestKnown THEN sel.prev.expiry.date = EarliestKnown
               ELSE IF t > LatestKnown THEN sel.next.expiry.date = LatestKnown
               ELSE sel.prev.expiry.date <= t /\ t <= sel.next.expiry.date
            /\ \A other \in Reorderings :
                  create_synthetic_future_price(ticker, currency, expiry_code, other).selected = sel

\* C8: whenever create_synthetic_future_price returns, the price is
\* prev.price + (days(target - prev) / days(next - prev)) * (next.price - prev.price)
\* for the selected pair; midway between the two dates it is the midpoint
\* of the two prices, and at prev.date it is prev.price.
C8_LinearBlend ==
    (call.op = "create_synthetic_future_price" /\ ~call.out.raised) =>
        LET sel == call.out.selected
            p == ticker[sel.prev.expiry.date].num
            n == ticker[sel.next.expiry.date].num
            a == expiry_code.date - sel.prev.expiry.date
            b == sel.next.expiry.date - sel.prev.expiry.date
            r == call.out.price
        IN  /\ r.num * b = r.den * (p * b + a * (n - p))
            /\ (2 * a = b => 2 * r.num = r.den * (p + n))
            /\ (a = 0 => r = Num(p))

C8_Witness ==
    /\ call.op = "create_synthetic_future_price"
    /\ ~call.out.raised
    /\ call.out.selected.branch = "between"
    /\ 2 * (expiry_code.date - call.out.selected.prev.expiry.date)
         = call.out.selected.next.expiry.date - call.out.selected.prev.expiry.date

\* C9: price_option synthesizes the forward exactly when the currency is one
\* of BTC, ETH, PAXG_USDC and currency-expiry is not in the futures list; a
\* listed name is fetched directly, once, and any other currency fetches
\* its PERPETUAL once, whatever the list holds.
C9_ForwardRoute ==
    call.op = "price_option" =>
        LET dated == currency \in {"BTC", "ETH", "PAXG_USDC"}
            name == [currency |-> currency, expiry |-> expiry_code]
            listed == \E i \in 1 .. Len(existing_futures) : existing_futures[i] = name
        IN  /\ call.out.route = "synthetic" <=> (dated /\ ~listed)
            /\ (dated /\ listed) => call.out.fetched = << name >>
            /\ ~dated => call.out.fetched = << [currency |-> currency, expiry |-> PERPETUAL] >>
            /\ call.out.route = "synthetic" => Len(call.out.fetched) # 1

C9_Witness ==
    /\ call.op = "price_option"
    /\ currency = "PAXG_USDC"
    /\ \E i \in 1 .. Len(existing_futures) :
          existing_futures[i] = [currency |-> currency, expiry |-> expiry_code]
    /\ call.out.route = "direct"
    /\ Len(call.out.fetched) = 1

\* C1: when price_option returns None for a leg, the task of that strike
\* still finishes, stores None (and no number) as that cell's computed
\* price, and the cycle goes on; the failure never aborts the cycle or the run.
C1_AbsentLegDegrades ==
    [][\A i \in DOMAIN tasks :
         (pc = "gather" /\ tasks[i].pc = "pricing" /\ tasks'[i].pc # "pricing") =>
            LET c == tasks'[i].call_mark_price_pred
                p == tasks'[i].put_mark_price_pred
            IN  (c = None \/ p = None) =>
                   /\ tasks'[i].pc = "done"
                   /\ pc' = "gather"
                   /\ strikes[i] \in DOMAIN output_dict'
                   /\ c = None => output_dict'[strikes[i]].call_mark_price = None
                   /\ p = None => output_dict'[strikes[i]].put_mark_price = None]_vars

\* C2: when a requested strike of the standard grid has no quote in the call
\* set or the put set of the cycle's snapshot, its task does not raise and
\* the run is not aborted.
C2_MissingQuoteDegrades ==
    pc \in {"gather", "crashed"} =>
        \A i \in DOMAIN tasks :
            ( /\ tasks[i].pc # "new"
              /\ strikes[i] \in standard_strikes
              /\ \/ strikes[i] \notin DOMAIN call_strike_iv_price_dict
                 \/ strikes[i] \notin DOMAIN put_strike_iv_price_dict )
            => (tasks[i].pc \in {"pricing", "done"} /\ pc # "crashed")

\* C3: an absent answer of the market-data collaborator (the grid at
\* initialization or in a cycle, the futures listing) never ends the run
\* with an unhandled error.
C3_AbsentAnswerIsNotFatal ==
    pc = "crashed" =>
        error \notin {"TypeError at api_requests.py:68", "TypeError at api_requests.py:113"}

\* C4: a run that meets no fatal error begins and saves exactly
\* floor(t1 / t2) cycles, one after the other, and then is done, however
\* long the cycles took.
C4_CyclesRun ==
    /\ pc = "done" => (iteration = t1 \div t2 /\ output_file.appends = t1 \div t2)
    /\ pc \in {"loop", "index_price", "gather", "sleep"} => iteration <= t1 \div t2
    /\ pc \in {"index_price", "gather"} => output_file.appends = iteration - 1
    /\ pc \in {"sleep", "loop"} => output_file.appends = iteration

C4_Witness ==
    pc = "done" /\ t1 = 3 /\ t2 = 2 /\ iteration = 1 /\ output_file.appends = 1

\* C5: after each cycle the loop waits max(0, t2 - duration): never a
\* negative time, and no time at all when the cycle took t2 or longer.
C5_DriftCorrectedWait ==
    (pc = "loop" /\ iteration > 0) =>
        /\ waited >= 0
        /\ execution_time < t2 => waited = t2 - execution_time
        /\ execution_time >= t2 => waited = 0
        /\ now = start_time + execution_time + waited

C5_Witness ==
    pc = "loop" /\ iteration > 0 /\ execution_time > t2 /\ waited = 0

\* C6: a cycle is saved once, after every task of the cycle has finished,
\* with one timestamp, and with a call and a put row for every requested
\* strike; a cycle in which a task raised is not saved at all.
C6_AtomicEmission ==
    LET rows == output_file.rows
    IN  /\ rows # << >> =>
              /\ {rows[j].strike_price : j \in 1 .. Len(rows)} = Range(strikes)
              /\ Len(rows) = 2 * Cardinality(Range(strikes))
              /\ \A j \in 1 .. Len(rows) : rows[j].timestamp = rows[1].timestamp
              /\ \A k \in Range(strikes) : \A ot \in {"call", "put"} :
                    \E j \in 1 .. Len(rows) :
                        rows[j].strike_price = k /\ rows[j].option_type = ot
        /\ pc \in {"index_price", "gather"} =>
              (rows = << >> /\ output_file.appends = iteration - 1)
        /\ pc = "sleep" =>
              /\ rows # << >>
              /\ output_file.appends = iteration
              /\ \A i \in DOMAIN tasks : tasks[i].pc = "done"
        /\ (pc = "crashed" /\ iteration > 0) =>
              (rows = << >> /\ output_file.appends = iteration - 1)

C6_Witness ==
    pc = "sleep" /\ iteration = 2 /\ Len(output_file.rows) = 4

\* the IV inside a settled Black-76 price
IVUsed(v) == IF v.of.kind = "quotient" THEN v.of.price.iv ELSE v.of.iv

\* the IV of the cycle's curve at a strike off the standard grid
CurveIV(d, serial, strike, option_type) ==
    IF strike \in DOMAIN d THEN QuotedIV(serial, strike, option_type)
    ELSE [kind |-> "pchip",
          x |-> [i \in 1 .. Len(sorted_items(d)) |-> sorted_items(d)[i][1]],
          y |-> [i \in 1 .. Len(sorted_items(d)) |->
                    QuotedIV(serial, sorted_items(d)[i][1], option_type)],
          at |-> strike]

\* C10: in every cycle a strike of the standard grid is priced with the call
\* and put IV quoted in that cycle's snapshot and emitted with that
\* snapshot's quoted prices; a strike off the grid is priced with the
\* cycle's curves evaluated at it and emitted with no quoted price.
C10_QuotedOrCurveIV ==
    /\ pc = "gather" =>
          \A i \in DOMAIN tasks :
              tasks[i].pc \in {"pricing", "done"} =>
                  LET k == strikes[i]
                      t == tasks[i]
                      serial == iteration + 1
                      on == k \in standard_strikes
                  IN  /\ t.call_iv = IF on THEN QuotedIV(serial, k, "call")
                                     ELSE CurveIV(call_strike_iv_price_dict, serial, k, "call")
                      /\ t.put_iv = IF on THEN QuotedIV(serial, k, "put")
                                    ELSE CurveIV(put_strike_iv_price_dict, serial, k, "put")
                      /\ t.pc = "done" =>
                            LET cell == output_dict[k]
                            IN  /\ cell.call_mark_price # None =>
                                      IVUsed(cell.call_mark_price) = t.call_iv
                                /\ cell.put_mark_price # None =>
                                      IVUsed(cell.put_mark_price) = t.put_iv
                                /\ cell.deribit_call_mark_price =
                                      IF on THEN QuotedPrice(serial, k, "call") ELSE None
                                /\ cell.deribit_put_mark_price =
                                      IF on THEN QuotedPrice(serial, k, "put") ELSE None
    /\ \A j \in 1 .. Len(output_file.rows) :
          LET row == output_file.rows[j]
          IN  row.deribit_mark_price =
                  IF row.strike_price \in standard_strikes
                  THEN QuotedPrice(iteration + 1, row.strike_price, row.option_type)
                  ELSE None

C10_Witness ==
    /\ pc = "gather" /\ iteration = 2
    /\ \E i, j \in DOMAIN tasks :
          /\ tasks[i].pc = "done" /\ tasks[j].pc = "done"
          /\ strikes[i] \in standard_strikes
          /\ strikes[j] \notin standard_strikes
          /\ strikes[j] \notin DOMAIN call_strike_iv_price_dict
          /\ output_dict[strikes[i]].call_mark_price # None
          /\ output_dict[strikes[j]].call_mark_price # None

\* whether every quote of d is the quote of the serial-th fetch of the grid
QuotesOfFetch(d, serial, option_type) ==
    \A k \in DOMAIN d :
        d[k] = << QuotedIV(serial, k, option_type), QuotedPrice(serial, k, option_type) >>

\* whether fn is a curve through the IVs that the serial-th fetch quoted for
\* the strikes of d, and through nothing else
CurveOfFetch(fn, d, serial, option_type) ==
    /\ fn.kind = "PchipInterpolator"
    /\ Len(fn.x) = Cardinality(DOMAIN d)
    /\ {fn.x[i] : i \in 1 .. Len(fn.x)} = DOMAIN d
    /\ \A i \in 1 .. Len(fn.x) : fn.y[i] = QuotedIV(serial, fn.x[i], option_type)

\* what the tasks of a cycle read is that cycle's own
C11_OwnSnapshot ==
    pc = "gather" =>
        /\ QuotesOfFetch(call_strike_iv_price_dict, iteration + 1, "call")
        /\ QuotesOfFetch(put_strike_iv_price_dict, iteration + 1, "put")
        /\ index_price \in {None, QuotedIndexPrice(iteration)}
        /\ IF iv_interpolation_needed
           THEN /\ CurveOfFetch(call_iv_fn, call_strike_iv_price_dict, iteration + 1, "call")
                /\ CurveOfFetch(put_iv_fn, put_strike_iv_price_dict, iteration + 1, "put")
           ELSE call_iv_fn = None /\ put_iv_fn = None
        /\ \A i \in DOMAIN tasks :
              tasks[i].pc \in {"pricing", "done"} =>
                  LET k == strikes[i]
                      t == tasks[i]
                  IN  /\ IF k \in standard_strikes
                         THEN /\ t.call_iv = call_strike_iv_price_dict[k][1]
                              /\ t.put_iv = put_strike_iv_price_dict[k][1]
                              /\ t.call_mark_price_act = call_strike_iv_price_dict[k][2]
                              /\ t.put_mark_price_act = put_strike_iv_price_dict[k][2]
                         ELSE /\ t.call_iv = evaluate(call_iv_fn, k)
                              /\ t.put_iv = evaluate(put_iv_fn, k)
                      /\ (t.pc = "done" /\ currency \in {"BTC", "ETH"}) =>
                            LET cell == output_dict[k]
                            IN  /\ cell.call_mark_price # None =>
                                      cell.call_mark_price.of.index_price = index_price
                                /\ cell.put_mark_price # None =>
                                      cell.put_mark_price.of.index_price = index_price

\* C11: within a cycle every task reads the same snapshot, index price and
\* curves, namely those fetched and built at the start of that cycle; while
\* the tasks of a cycle run, in any interleaving, none of them is replaced,
\* and the next snapshot is fetched only after every task has finished.
C11_CycleConsistency ==
    /\ []C11_OwnSnapshot
    /\ [][ /\ (pc = "gather" /\ pc' = "gather") =>
                UNCHANGED << snapshots, call_strike_iv_price_dict, put_strike_iv_price_dict,
                             index_price, call_iv_fn, put_iv_fn, iteration >>
           /\ snapshots' # snapshots =>
                \A i \in DOMAIN tasks : tasks[i].pc = "done" ]_vars

C11_Witness ==
    /\ pc = "gather" /\ iteration = 2 /\ iv_interpolation_needed
    /\ index_price # None
    /\ \E i, j \in DOMAIN tasks :
          /\ tasks[i].pc = "done" /\ tasks[j].pc = "pricing"
          /\ strikes[i] \notin standard_strikes
          /\ strikes[j] \in standard_strikes
          /\ output_dict[strikes[i]].call_mark_price # None

\* the fetches made so far, by the place main_loop has reached
C12_FetchCounts ==
    /\ pc \in {"main", "rejected", "standard_strikes"} => (snapshots = 0 /\ fetches.futures = 0)
    /\ pc = "existing_futures" => (snapshots = 1 /\ fetches.futures = 0)
    /\ pc \in {"loop", "index_price", "gather", "sleep", "done"} =>
          (fetches.futures = 1 /\ snapshots = iteration + 1)
    /\ iteration > 0 => fetches.futures = 1
    /\ pc = "index_price" => fetches.index = iteration - 1
    /\ pc \in {"gather", "sleep", "loop", "done"} => fetches.index = iteration

\* C12: the futures listing is fetched exactly once, before the first cycle,
\* and the list is the same in every cycle; every cycle fetches the grid
\* once and the index price once, and no fetch of them is made once the
\* tasks of the cycle have been created.
C12_FetchedOnce ==
    /\ []C12_FetchCounts
    /\ [][ /\ pc # "existing_futures" => existing_futures' = existing_futures
           /\ iteration' # iteration =>
                (iteration' = iteration + 1 /\ snapshots' = snapshots + 1)
           /\ pc = "gather" => UNCHANGED << snapshots, fetches >> ]_vars

C12_Witness ==
    /\ pc = "gather" /\ iteration = 3
    /\ snapshots = 4 /\ fetches = [futures |-> 1, index |-> 3]
    /\ \E i \in DOMAIN tasks : tasks[i].pc = "new"
    /\ Len(existing_futures) = 2

\* C13: a currency that is not supported, and times that give no whole cycle
\* (t1 < t2, or t2 = 0), are turned away before any fetch and any cycle.
C13_ValidatedBeforeLoop ==
    (currency \notin SupportedCurrencies \/ t2 = 0 \/ t1 < t2) =>
        /\ snapshots = 0
        /\ fetches = [futures |-> 0, index |-> 0]
        /\ iteration = 0
        /\ pc # "crashed"

\* C14: a run with an invalid currency, with fewer than 2 curve samples when
\* interpolation is required, or with a malformed expiry code, begins no
\* cycle and emits nothing.
C14_ConfigurationFailuresBeforeCycles ==
    /\ ( \/ currency \notin SupportedCurrencies
         \/ expiry_code.spelling = "malformed"
         \/ (pc = "crashed" /\ error = "ValueError at pricing.py:25") ) =>
            (iteration = 0 /\ output_file.appends = 0)

\* C15: for an expiry that is already past, the time to expiry is invalid
\* and nothing is priced: price_option returns None for a call and for a
\* put without a call of the Black-76 formula, and no negative time is
\* passed to the formula.
C15_PastExpiryNotPriced ==
    (call.op = "price_option" /\ expiry_code.date < today) =>
        /\ call.out.time_to_expiry = None
        /\ call.out.price = None
        /\ call.out.black_76_args = << >>

\* C16: price_black_76 returns None, and no number, nan or infinity,
\* whenever T <= 0 (T = 0 included), the volatility is 0, F <= 0 or K <= 0.
C16_InvalidDomainIsAbsent ==
    call.op = "price_black_76" =>
        ((call.T.num <= 0 \/ call.iv.num = 0 \/ call.F.num <= 0 \/ call.K <= 0) =>
            (call.out["call"] = None /\ call.out["put"] = None))

C18_ScenarioAsStated ==
    (call.op = "create_synthetic_future_price on the curve" /\ call.target = 15) =>
        /\ ~call.out.raised
        /\ call.out.price.num * 10 = call.out.price.den * (100000 * 10 + 15 * (101000 - 100000))

\* C18: with futures 10 and 20 days out priced 100000 and 101000, the
\* forward for an expiry 15 days out is interpolated between the two and is
\* 100000 + ((15-10)/(20-10))*(101000-100000), that is 100500.
C18_ScenarioForward ==
    (call.op = "create_synthetic_future_price on the curve" /\ call.target = 15) =>
        /\ ~call.out.raised
        /\ call.out.selected.branch = "between"
        /\ call.out.price.num * (20 - 10)
              = call.out.price.den * (100000 * (20 - 10) + (15 - 10) * (101000 - 100000))
        /\ call.out.price = Num(100500)

C18_Witness ==
    /\ call.op = "create_synthetic_future_price on the curve"
    /\ call.target = 15
    /\ call.given[1].expiry.date = 20
    /\ call.out.selected.prev.expiry.date = 10
    /\ call.out.selected.next.expiry.date = 20
    /\ call.out.price = Num(100500)

\* sums and differences of rationals
Plus(a, b) == Rat(a.num * b.den + b.num * a.den, a.den * b.den)
Minus(a, b) == Rat(a.num * b.den - b.num * a.den, a.den * b.den)

\* a price one + d1 * Phi(d1) + d2 * Phi(d2), from its sum of products, by
\* the symmetry Phi(-x) = 1 - Phi(x) of the normal distribution
RECURSIVE LinearForm(_)
LinearForm(sum) ==
    IF sum = << >> THEN [one |-> Num(0), d1 |-> Num(0), d2 |-> Num(0)]
    ELSE LET h == Head(sum)
             rest == LinearForm(Tail(sum))
             weight == IF h.negated THEN Minus(Num(0), h.coef) ELSE h.coef
         IN  [one |-> IF h.negated THEN Plus(rest.one, h.coef) ELSE rest.one,
              d1 |-> IF h.cdf = "d1" THEN Plus(rest.d1, weight) ELSE rest.d1,
              d2 |-> IF h.cdf = "d2" THEN Plus(rest.d2, weight) ELSE rest.d2]

\* C19: for F > 0, K > 0, T > 0 and a volatility > 0 shared by the two
\* kinds, the price of the call minus the price of the put is F - K.
C19_PutCallParity ==
    ( /\ call.op = "price_black_76"
      /\ call.F.num > 0 /\ call.K > 0 /\ call.T.num > 0 /\ call.iv.num > 0 ) =>
        LET c == call.out["call"]
            p == call.out["put"]
        IN  /\ c.kind = "black76" /\ p.kind = "black76"
            /\ << c.F, c.K, c.T, c.iv >> = << p.F, p.K, p.T, p.iv >>
            /\ LET cf == LinearForm(c.sum)
                   pf == LinearForm(p.sum)
               IN  /\ Minus(cf.d1, pf.d1) = Num(0)
                   /\ Minus(cf.d2, pf.d2) = Num(0)
                   /\ Minus(cf.one, pf.one) = Minus(call.F, Num(call.K))

C19_Witness ==
    /\ call.op = "price_black_76"
    /\ call.F = Num(2) /\ call.K = 3 /\ call.T = Rat(2, 365) /\ call.iv = Rat(1, 2)
    /\ call.out["call"].kind = "black76"
    /\ call.out["put"].kind = "black76"
    /\ LinearForm(call.out["put"].sum).one = Num(1)

\* C20: for a mapping of at least 2 samples inserted in any order,
\* iv_interpolator fits the curve to the strikes in strictly ascending order,
\* each with the IV (not the quoted price) of its sample, and the curve
\* evaluated at a sampled strike is that strike's IV.
C20_SortedKnots ==
    (call.op = "iv_interpolator" /\ Len(call.items) >= 2) =>
        LET fn == call.out
            n == Len(call.items)
        IN  /\ fn.kind = "PchipInterpolator"
            /\ Len(fn.x) = n /\ Len(fn.y) = n
            /\ \A i \in 1 .. n - 1 : fn.x[i] < fn.x[i + 1]
            /\ \A j \in 1 .. n :
                  /\ \E i \in 1 .. n :
                        fn.x[i] = call.items[j][1] /\ fn.y[i] = call.items[j][2][1]
                  /\ call.at[call.items[j][1]] = call.items[j][2][1]

C20_Witness ==
    /\ call.op = "iv_interpolator"
    /\ Len(call.items) = 3
    /\ call.items[1][1] = 3 /\ call.items[2][1] = 1 /\ call.items[3][1] = 2
    /\ call.out.x = << 1, 2, 3 >>
    /\ call.at[3] = call.items[1][2][1]
    /\ call.out.y[3] = QuotedIV(2, 3, "call")

\* C21: fetch_data makes at most retries attempts; it returns the result of
\* the first attempt that has status 200 and a "result" field, and that
\* attempt is its last; when every attempt fails it returns None after
\* exactly retries attempts; it returns in every case and raises nothing.
C21_BoundedRetry ==
    call.op = "fetch_data" =>
        LET n == Len(call.attempts)
        IN  /\ n <= call.retries
            /\ call.pc \in {"loop", "returned"}
            /\ \A i \in 1 .. n - 1 : call.attempts[i] # "result"
            /\ call.pc = "loop" => (n = 0 \/ call.attempts[n] # "result")
            /\ call.pc = "returned" =>
                  IF n > 0 /\ call.attempts[n] = "result"
                  THEN call.value = Num(n)
                  ELSE call.value = None /\ n = call.retries

C21_Witness ==
    /\ call.op = "fetch_data" /\ call.pc = "returned"
    /\ call.retries = 5
    /\ call.attempts = << "status 500", "exception", "no result", "result" >>
    /\ call.value = Num(4)

\* C22: when price_option has to synthesize the forward and the list has
\* fewer than 2 futures, or the two selected futures have the same date, or
\* the venue has no price for one of them, create_synthetic_future_price
\* fails, and price_option returns None: no number, and nothing is priced.
C22_UnresolvedForwardIsAbsent ==
    (call.op = "price_option" /\ call.out.route = "synthetic") =>
        LET dates == existing_dates_of(existing_futures)
            sel == surrounding_futures(dates, expiry_code.date)
            unresolved ==
                \/ Len(existing_futures) < 2
                \/ sel.bound /\ dates[sel.prev][2] = dates[sel.next][2]
                \/ sel.bound /\ ( \/ ticker[dates[sel.prev][2]] = None
                                  \/ ticker[dates[sel.next][2]] = None )
        IN  unresolved =>
                /\ create_synthetic_future_price(ticker, currency, expiry_code,
                                                 existing_futures).raised
                /\ call.out.future_price = None
                /\ call.out.price = None
                /\ call.out.black_76_args = << >>

C22_Witness ==
    /\ call.op = "price_option" /\ call.out.route = "synthetic"
    /\ Len(existing_futures) = 2
    /\ existing_futures[1].expiry.date = existing_futures[2].expiry.date
    /\ expiry_code.date < existing_futures[1].expiry.date
    /\ expiry_code.date >= today
    /\ \A d \in 0 .. MaxDate : ticker[d] # None
    /\ call.out.price = None

\* the flag and the curves, by the place main_loop has reached
C23_FlagAndCurves ==
    /\ pc \in {"loop", "index_price", "gather", "sleep", "done"} =>
          (iv_interpolation_needed <=> \E i \in 1 .. Len(strikes) : strikes[i] \notin standard_strikes)
    /\ pc \in {"gather", "sleep"} =>
          IF iv_interpolation_needed
          THEN call_iv_fn.kind = "PchipInterpolator" /\ put_iv_fn.kind = "PchipInterpolator"
          ELSE call_iv_fn = None /\ put_iv_fn = None
    /\ pc = "gather" =>
          \A i \in DOMAIN tasks :
              (tasks[i].pc # "new" /\ strikes[i] \notin standard_strikes) =>
                  /\ call_iv_fn # None /\ put_iv_fn # None
                  /\ tasks[i].call_iv = evaluate(call_iv_fn, strikes[i])
                  /\ tasks[i].put_iv = evaluate(put_iv_fn, strikes[i])
    /\ error # "TypeError at main.py:36"

\* C23: the flag is set at initialization, to whether a requested strike is
\* off the standard grid fetched then, and keeps its value for the run; a
\* cycle builds the call and the put curve exactly when the flag is set, and
\* a task that takes the off-grid branch always finds both curves built.
C23_InterpolationFlag ==
    /\ []C23_FlagAndCurves
    /\ [][ (pc \in {"loop", "index_price", "gather", "sleep"}) =>
              UNCHANGED << iv_interpolation_needed, standard_strikes, strikes >> ]_vars

C23_Witness ==
    /\ pc = "gather" /\ iteration = 2
    /\ strikes = << 2, 1 >>
    /\ standard_strikes = {2, 3}
    /\ iv_interpolation_needed
    /\ tasks[2].pc = "pricing" /\ tasks[1].pc = "new"
    /\ tasks[2].call_iv.kind = "pchip"

\* C24: a saved cycle has exactly one record for every distinct requested
\* strike and kind, also when a strike is requested twice; the records are
\* in ascending order of strike, the call record of a strike immediately
\* before its put record, whatever the order of the requested list and the
\* order in which the tasks finished.
C24_RecordOrder ==
    LET rows == output_file.rows
        pairs == Len(rows) \div 2
    IN  /\ pc = "sleep" => rows # << >>
        /\ rows # << >> =>
              /\ Len(rows) = 2 * Cardinality(Range(strikes))
              /\ \A j \in 1 .. pairs :
                    /\ rows[2 * j - 1].option_type = "call"
                    /\ rows[2 * j].option_type = "put"
                    /\ rows[2 * j - 1].strike_price = rows[2 * j].strike_price
                    /\ rows[2 * j].strike_price \in Range(strikes)
              /\ \A j \in 1 .. pairs - 1 :
                    rows[2 * j].strike_price < rows[2 * j + 1].strike_price

C24_Witness ==
    /\ pc = "sleep" /\ iteration = 2
    /\ strikes = << 2, 1 >>
    /\ Len(output_file.rows) = 4
    /\ output_file.rows[1].strike_price = 1
    /\ output_file.rows[4].strike_price = 2

====
